---- MODULE Spec2Model ----
(***************************************************************************)
(* Model of backend/main.py of kt-stock-game: the two request handlers     *)
(* get_stocks (GET /api/stocks) and get_stock_detail (GET /api/stock/..),  *)
(* the helpers _safe and _build_summary, and the market-data provider      *)
(* (yfinance's Ticker.info) as an environment that answers each call with  *)
(* a mapping, with None, or by raising.                                    *)
(*                                                                         *)
(* Python values are records [kind, num, str]: None, float NaN, a number   *)
(* (in hundredths, so that round(x, 2) is integer arithmetic) or a string  *)
(* (a sequence of one-character strings).  A key that a mapping does not   *)
(* hold is the value Missing; dict.get turns it into None.                 *)
(***************************************************************************)
EXTENDS Integers, Sequences, FiniteSets

VARIABLES
    pc,           \* "idle", "loop" (inside the for loop of get_stocks), "done"
    route,        \* the handler serving the request: "stocks", "stock" or "none"
    arg,          \* the request's symbols query string or symbol path segment
    symbol_list,  \* get_stocks: the parsed symbols
    index,        \* get_stocks: how many symbols the for loop has consumed
    results,      \* get_stocks: the entries appended so far
    calls,        \* the symbols the provider was asked for, in call order
    answers,      \* what the provider answered to each call
    response      \* the HTTP response, [status |-> 0] while there is none

vars == <<pc, route, arg, symbol_list, index, results, calls, answers, response>>

(***************************************************************************)
(* Python values                                                           *)
(***************************************************************************)
None == [kind |-> "none", num |-> 0, str |-> <<>>]

NaN == [kind |-> "nan", num |-> 0, str |-> <<>>]

Missing == [kind |-> "missing", num |-> 0, str |-> <<>>]

Num(n) == [kind |-> "num", num |-> n, str |-> <<>>]

Str(s) == [kind |-> "str", num |-> 0, str |-> s]

\* bool(value): None, 0 and "" are falsy; NaN and every other value are truthy.
Truthy(value) ==
    CASE value.kind = "none" -> FALSE
      [] value.kind = "num" -> value.num # 0
      [] value.kind = "str" -> Len(value.str) > 0
      [] OTHER -> TRUE

\* a or b
Or(a, b) == IF Truthy(a) THEN a ELSE b

\* info.get(key): None when the mapping does not hold the key.
Get(info, key) == IF info[key] = Missing THEN None ELSE info[key]

\* type(value).__name__ as it appears in a TypeError message.
TypeName(value) ==
    CASE value.kind = "str" -> "str"
      [] value.kind = "none" -> "NoneType"
      [] OTHER -> "float"

\* Whether a - b is defined (both operands are floats, NaN included).
CanSubtract(a, b) == a.kind \in {"num", "nan"} /\ b.kind \in {"num", "nan"}

\* str(exc) of the TypeError that a - b raises otherwise.
TypeErrorMsg(a, b) ==
    CASE TypeName(a) = "str" /\ TypeName(b) = "str" ->
             "unsupported operand type(s) for -: 'str' and 'str'"
      [] TypeName(a) = "str" ->
             "unsupported operand type(s) for -: 'str' and 'float'"
      [] OTHER ->
             "unsupported operand type(s) for -: 'float' and 'str'"

\* The integer nearest to a / b (b # 0), ties to the even one: round().
RoundDiv(a, b) ==
    LET n == IF b < 0 THEN -a ELSE a
        d == IF b < 0 THEN -b ELSE b
        q == (2 * n + d) \div (2 * d)
    IN  IF (2 * n + d) % (2 * d) = 0 /\ q % 2 # 0 THEN q - 1 ELSE q

\* round(price - prev_close, 2), in hundredths.
RoundedDifference(price, prev_close) ==
    IF price.kind = "nan" \/ prev_close.kind = "nan"
    THEN NaN
    ELSE Num(price.num - prev_close.num)

\* round((change / prev_close) * 100, 2), in hundredths of a percent.
RoundedPercent(change, prev_close) ==
    IF change.kind = "nan" \/ prev_close.kind = "nan"
    THEN NaN
    ELSE Num(RoundDiv(change.num * 10000, prev_close.num))

(***************************************************************************)
(* Strings: str.split(","), str.strip(), str.upper()                       *)
(***************************************************************************)
Whitespace == {" "}

UpperChar(c) ==
    CASE c = "a" -> "A"
      [] c = "b" -> "B"
      [] OTHER -> c

Upper(s) == [i \in 1..Len(s) |-> UpperChar(s[i])]

RECURSIVE LStrip(_)
LStrip(s) ==
    IF s # <<>> /\ Head(s) \in Whitespace THEN LStrip(Tail(s)) ELSE s

RECURSIVE RStrip(_)
RStrip(s) ==
    IF s # <<>> /\ s[Len(s)] \in Whitespace
    THEN RStrip(SubSeq(s, 1, Len(s) - 1))
    ELSE s

Strip(s) == RStrip(LStrip(s))

RECURSIVE SplitComma(_)
SplitComma(s) ==
    IF \A i \in 1..Len(s) : s[i] # ","
    THEN <<s>>
    ELSE LET k == CHOOSE i \in 1..Len(s) :
                      s[i] = "," /\ \A j \in 1..(i - 1) : s[j] # ","
         IN  <<SubSeq(s, 1, k - 1)>> \o SplitComma(SubSeq(s, k + 1, Len(s)))

\* The filter written "if s" instead of "if s.strip()".
ParseSymbolsUntrimmedFilter(symbols) ==
    LET pieces == SplitComma(symbols)
        kept == SelectSeq(pieces, LAMBDA s : s # <<>>)
    IN  [i \in 1..Len(kept) |-> Upper(Strip(kept[i]))]

ParseSymbols(symbols) ==
    LET pieces == SplitComma(symbols)
        kept == SelectSeq(pieces, LAMBDA s : Strip(s) # <<>>)
    IN  [i \in 1..Len(kept) |-> Upper(Strip(kept[i]))]

(***************************************************************************)
(* The provider: what reading Ticker(symbol).info does                     *)
(***************************************************************************)
Keys ==
    {"currentPrice", "regularMarketPrice", "regularMarketPreviousClose",
     "shortName", "marketCap", "sector", "industry"}

EmptyInfo == [k \in Keys |-> Missing]

Dict(info) == [tag |-> "dict", info |-> info, msg |-> ""]

NoneAnswer == [tag |-> "none", info |-> EmptyInfo, msg |-> ""]

Raises(msg) == [tag |-> "raise", info |-> EmptyInfo, msg |-> msg]

\* ticker.info or {}
InfoOrEmpty(ticker) == IF ticker.tag = "dict" THEN ticker.info ELSE EmptyInfo

(***************************************************************************)
(* Helpers                                                                 *)
(***************************************************************************)
_safe(value, default) ==
    IF value = None
    THEN default
    ELSE IF value.kind = "nan" THEN default ELSE value

\* The fallback taken only when currentPrice is None or NaN, not when it is falsy.
SummaryPriceNoneOnly(info) ==
    IF _safe(Get(info, "currentPrice"), None) # None
    THEN _safe(Get(info, "currentPrice"), None)
    ELSE _safe(Get(info, "regularMarketPrice"), None)

SummaryPrice(info) ==
    Or(_safe(Get(info, "currentPrice"), None),
       _safe(Get(info, "regularMarketPrice"), None))

Returned(value) == [raised |-> FALSE, value |-> value]

Raised(msg) == [raised |-> TRUE, msg |-> msg]

\* A change that a truthiness test on price would skip for a price of 0.
ChangeComputedTruthyPrice(price, prev_close) ==
    Truthy(price) /\ Truthy(prev_close)

\* if price is not None and prev_close:
ChangeComputed(price, prev_close) == price # None /\ Truthy(prev_close)

_build_summary(ticker, symbol) ==
    IF ticker.tag = "raise"
    THEN Raised(ticker.msg)
    ELSE
      LET info == InfoOrEmpty(ticker)
          price == SummaryPrice(info)
          prev_close == _safe(Get(info, "regularMarketPreviousClose"), None)
          entered == ChangeComputed(price, prev_close)
          change == IF entered THEN RoundedDifference(price, prev_close) ELSE None
          change_pct == IF entered THEN RoundedPercent(change, prev_close) ELSE None
      IN  IF entered /\ ~CanSubtract(price, prev_close)
          THEN Raised(TypeErrorMsg(price, prev_close))
          ELSE Returned([symbol |-> Upper(symbol),
                         name |-> _safe(Get(info, "shortName"), Str(Upper(symbol))),
                         price |-> price,
                         change |-> change,
                         changePercent |-> change_pct])

\* The entry the except branch of get_stocks appends.
ErrorEntry(sym, msg) ==
    [symbol |-> sym, name |-> Str(sym), price |-> None, change |-> None,
     changePercent |-> None, error |-> msg]

\* One pass of the loop body of get_stocks: the entry appended for sym.
LoopBody(ticker, sym) ==
    LET r == _build_summary(ticker, sym)
    IN  IF r.raised THEN ErrorEntry(sym, r.msg) ELSE r.value

DetailPrice(info) ==
    Or(_safe(Get(info, "currentPrice"), None),
       _safe(Get(info, "regularMarketPrice"), None))

\* The detail handler without its "if price is None" test.
DetailResponseNoPriceTest(ticker, symbol) ==
    IF ticker.tag = "raise"
    THEN [status |-> 502, detail |-> <<"Failed to fetch data for ", symbol>>]
    ELSE
      LET info == InfoOrEmpty(ticker)
      IN  [status |-> 200,
           symbol |-> symbol,
           name |-> _safe(Get(info, "shortName"), Str(symbol)),
           price |-> DetailPrice(info),
           marketCap |-> _safe(Get(info, "marketCap"), None),
           sector |-> _safe(Get(info, "sector"), Str(<<"N", "/", "A">>)),
           industry |-> _safe(Get(info, "industry"), Str(<<"N", "/", "A">>))]

\* The detail handler with the provider's exception swallowed into an empty record.
DetailResponseSwallow(ticker, symbol) ==
    LET info == InfoOrEmpty(ticker)
        price == DetailPrice(info)
    IN  IF price = None
        THEN [status |-> 404, detail |-> <<"No price data found for ", symbol>>]
        ELSE [status |-> 200,
              symbol |-> symbol,
              name |-> _safe(Get(info, "shortName"), Str(symbol)),
              price |-> price,
              marketCap |-> _safe(Get(info, "marketCap"), None),
              sector |-> _safe(Get(info, "sector"), Str(<<"N", "/", "A">>)),
              industry |-> _safe(Get(info, "industry"), Str(<<"N", "/", "A">>))]

\* get_stock_detail after symbol = symbol.strip().upper(): the response.
DetailResponse(ticker, symbol) ==
    IF ticker.tag = "raise"
    THEN [status |-> 502, detail |-> <<"Failed to fetch data for ", symbol>>]
    ELSE
      LET info == InfoOrEmpty(ticker)
          price == DetailPrice(info)
      IN  IF price = None
          THEN [status |-> 404, detail |-> <<"No price data found for ", symbol>>]
          ELSE [status |-> 200,
                symbol |-> symbol,
                name |-> _safe(Get(info, "shortName"), Str(symbol)),
                price |-> price,
                marketCap |-> _safe(Get(info, "marketCap"), None),
                sector |-> _safe(Get(info, "sector"), Str(<<"N", "/", "A">>)),
                industry |-> _safe(Get(info, "industry"), Str(<<"N", "/", "A">>))]

(***************************************************************************)
(* Requests and provider answers the model draws from                      *)
(***************************************************************************)
MaxPieces == 3

\* What a client writes between the commas of ?symbols=.
Pieces == {<<>>, <<" ">>, <<"a">>, <<" ", "A", " ">>, <<"B">>}

RECURSIVE Join(_)
Join(ps) ==
    IF Len(ps) = 1 THEN ps[1] ELSE ps[1] \o <<",">> \o Join(Tail(ps))

PieceLists == UNION {[1..n -> Pieces] : n \in 1..MaxPieces}

BatchInputs == {Join(ps) : ps \in PieceLists}

SingleInputs == {p \o <<",">> : p \in Pieces} \cup {<<"b">>}

DetailInputs == Pieces \ {<<>>}

NotAvailable == Str(<<"N", "/", "A">>)

PriceValues(n) == {Missing, None, NaN, Num(0), Num(n), Str(<<>>), NotAvailable}

AllInfos ==
    [currentPrice : PriceValues(15000),
     regularMarketPrice : PriceValues(4200),
     regularMarketPreviousClose : PriceValues(14500),
     shortName : {Missing, NaN, Str(<<"A", "p", "p", "l", "e">>)},
     marketCap : {Missing, Num(5)},
     sector : {Missing, Str(<<"T", "e", "c", "h">>)},
     industry : {NaN, Str(<<"S", "o", "f", "t">>)}]

AllAnswers == {Dict(info) : info \in AllInfos} \cup {NoneAnswer, Raises("timeout")}

Quoted ==
    [EmptyInfo EXCEPT !.currentPrice = Num(15000),
                      !.regularMarketPreviousClose = Num(14500),
                      !.shortName = Str(<<"A", "p", "p", "l", "e">>)]

ZeroCurrent ==
    [EmptyInfo EXCEPT !.currentPrice = Num(0),
                      !.regularMarketPrice = Num(4200),
                      !.regularMarketPreviousClose = Num(14500)]

Placeholder ==
    [EmptyInfo EXCEPT !.currentPrice = NotAvailable,
                      !.regularMarketPreviousClose = Num(14500)]

FewAnswers ==
    {Dict(Quoted), Dict(ZeroCurrent), Dict(Placeholder), Dict(EmptyInfo),
     NoneAnswer, Raises("timeout"), Raises("")}

(***************************************************************************)
(* The handlers                                                            *)
(***************************************************************************)
Init ==
    /\ pc = "idle"
    /\ route = "none"
    /\ arg = <<>>
    /\ symbol_list = <<>>
    /\ index = 0
    /\ results = <<>>
    /\ calls = <<>>
    /\ answers = <<>>
    /\ response = [status |-> 0]

\* get_stocks up to the for loop: parse, and 400 when no symbol is left.
GetStocksBegin(inputs) ==
    /\ pc = "idle"
    /\ \E symbols \in inputs :
         /\ route' = "stocks"
         /\ arg' = symbols
         /\ symbol_list' = ParseSymbols(symbols)
         /\ IF ParseSymbols(symbols) = <<>>
            THEN /\ response' = [status |-> 400, detail |-> "No symbols provided"]
                 /\ pc' = "done"
            ELSE /\ response' = response
                 /\ pc' = "loop"
    /\ UNCHANGED <<index, results, calls, answers>>

\* The loop with "continue" in its except branch: a failed symbol gets no entry.
GetStocksIterationSkipFailed(provider) ==
    /\ pc = "loop"
    /\ index < Len(symbol_list)
    /\ \E ticker \in provider :
         LET sym == symbol_list[index + 1]
         IN  /\ calls' = Append(calls, sym)
             /\ answers' = Append(answers, ticker)
             /\ results' = IF _build_summary(ticker, sym).raised
                           THEN results
                           ELSE Append(results, LoopBody(ticker, sym))
    /\ index' = index + 1
    /\ UNCHANGED <<pc, route, arg, symbol_list, response>>

\* The loop with one more attempt after a failed read of the ticker's info.
GetStocksIterationRetry(provider) ==
    /\ pc = "loop"
    /\ index < Len(symbol_list)
    /\ \E ticker \in provider, again \in provider :
         LET sym == symbol_list[index + 1]
         IN  IF ticker.tag = "raise"
             THEN /\ calls' = calls \o <<sym, sym>>
                  /\ answers' = answers \o <<ticker, again>>
                  /\ results' = Append(results, LoopBody(again, sym))
             ELSE /\ calls' = Append(calls, sym)
                  /\ answers' = Append(answers, ticker)
                  /\ results' = Append(results, LoopBody(ticker, sym))
    /\ index' = index + 1
    /\ UNCHANGED <<pc, route, arg, symbol_list, response>>

\* The loop without try/except: an exception ends the request with a 500.
GetStocksIterationUncaught(provider) ==
    /\ pc = "loop"
    /\ index < Len(symbol_list)
    /\ \E ticker \in provider :
         LET sym == symbol_list[index + 1]
         IN  /\ calls' = Append(calls, sym)
             /\ answers' = Append(answers, ticker)
             /\ IF _build_summary(ticker, sym).raised
                THEN /\ response' = [status |-> 500, detail |-> "Internal Server Error"]
                     /\ pc' = "done"
                     /\ UNCHANGED results
                ELSE /\ results' = Append(results, LoopBody(ticker, sym))
                     /\ UNCHANGED <<pc, response>>
    /\ index' = index + 1
    /\ UNCHANGED <<route, arg, symbol_list>>

\* One pass of the for loop: read the ticker's info, shape it, append.
GetStocksIteration(provider) ==
    /\ pc = "loop"
    /\ index < Len(symbol_list)
    /\ \E ticker \in provider :
         LET sym == symbol_list[index + 1]
         IN  /\ calls' = Append(calls, sym)
             /\ answers' = Append(answers, ticker)
             /\ results' = Append(results, LoopBody(ticker, sym))
    /\ index' = index + 1
    /\ UNCHANGED <<pc, route, arg, symbol_list, response>>

\* The loop is exhausted: return {"stocks": results}.
GetStocksReturn ==
    /\ pc = "loop"
    /\ index = Len(symbol_list)
    /\ response' = [status |-> 200, stocks |-> results]
    /\ pc' = "done"
    /\ UNCHANGED <<route, arg, symbol_list, index, results, calls, answers>>

\* get_stock_detail, whole.
GetStockDetail(inputs, provider) ==
    /\ pc = "idle"
    /\ \E raw \in inputs, ticker \in provider :
         LET symbol == Upper(Strip(raw))
         IN  /\ route' = "stock"
             /\ arg' = raw
             /\ calls' = Append(calls, symbol)
             /\ answers' = Append(answers, ticker)
             /\ response' = DetailResponse(ticker, symbol)
    /\ pc' = "done"
    /\ UNCHANGED <<symbol_list, index, results>>

Next ==
    \/ GetStocksBegin(BatchInputs)
    \/ GetStocksIteration(FewAnswers)
    \/ GetStocksReturn
    \/ GetStockDetail(DetailInputs, FewAnswers)

Spec == Init /\ [][Next]_vars

\* One symbol per request, every raw record.
NextShaper ==
    \/ GetStocksBegin(SingleInputs)
    \/ GetStocksIteration(AllAnswers)
    \/ GetStocksReturn
    \/ GetStockDetail(DetailInputs, AllAnswers)

ShaperSpec == Init /\ [][NextShaper]_vars

(***************************************************************************)
(* Properties                                                              *)
(***************************************************************************)
BatchDone == route = "stocks" /\ pc = "done"

DetailDone == route = "stock" /\ pc = "done"

IsErrorEntry(entry) == "error" \in DOMAIN entry

\* The raw record the k-th provider call answered with ({} for None).
RecordOf(k) == InfoOrEmpty(answers[k])

IsNumber(value) == value.kind = "num"

\* C1: a batch request whose parsed symbol list is non-empty returns one
\* entry per parsed symbol, duplicates included, the k-th entry carrying the
\* k-th parsed symbol, whatever fetches succeed or fail.
C1_OneEntryPerSymbolInOrder ==
    (BatchDone /\ ParseSymbols(arg) # <<>>) =>
        /\ "stocks" \in DOMAIN response
        /\ Len(response.stocks) = Len(ParseSymbols(arg))
        /\ \A k \in 1..Len(ParseSymbols(arg)) :
               response.stocks[k].symbol = ParseSymbols(arg)[k]

C1_Witness ==
    /\ BatchDone
    /\ response.status = 200
    /\ Len(ParseSymbols(arg)) = 3
    /\ ParseSymbols(arg)[1] = ParseSymbols(arg)[3]
    /\ ParseSymbols(arg)[1] # ParseSymbols(arg)[2]
    /\ IsErrorEntry(response.stocks[2])
    /\ ~IsErrorEntry(response.stocks[1])
    /\ ~IsErrorEntry(response.stocks[3])

\* C2: in a batch, every parsed symbol is fetched exactly once, in order, and
\* the entry of a symbol whose own fetch and shaping succeed is the summary of
\* its own raw record alone, whatever happens to the other symbols.
C2_FailureIsolated ==
    BatchDone =>
        /\ calls = ParseSymbols(arg)
        /\ Len(answers) = Len(calls)
        /\ response.status = 200 =>
             \A k \in 1..Len(calls) :
                 ~_build_summary(answers[k], calls[k]).raised =>
                     response.stocks[k] = _build_summary(answers[k], calls[k]).value

C2_Witness ==
    /\ BatchDone
    /\ response.status = 200
    /\ Len(response.stocks) = 3
    /\ answers[2].tag = "raise"
    /\ answers[1] = Dict(Quoted)
    /\ answers[3] = Dict(ZeroCurrent)
    /\ response.stocks[1].price = Num(15000)
    /\ response.stocks[3].price = Num(4200)

\* C3: once the parsed list is non-empty the batch never fails as a whole: the
\* loop can always go on, the response is a 200 with a stocks list, and a
\* symbol whose fetch or shaping raised has the degraded entry with the
\* failure message.
C3_BatchNeverFails ==
    /\ (route = "stocks" /\ pc = "loop") => ENABLED Next
    /\ (BatchDone /\ ParseSymbols(arg) # <<>>) =>
           /\ response.status = 200
           /\ "stocks" \in DOMAIN response
           /\ Len(response.stocks) = Len(answers)
           /\ \A k \in 1..Len(answers) :
                  _build_summary(answers[k], calls[k]).raised =>
                      response.stocks[k] =
                          [symbol |-> ParseSymbols(arg)[k],
                           name |-> Str(ParseSymbols(arg)[k]),
                           price |-> None,
                           change |-> None,
                           changePercent |-> None,
                           error |-> _build_summary(answers[k], calls[k]).msg]

C3_Witness ==
    /\ BatchDone
    /\ response.status = 200
    /\ Len(response.stocks) = 2
    /\ answers[1] = Raises("timeout")
    /\ answers[2] = Dict(Placeholder)
    /\ IsErrorEntry(response.stocks[1])
    /\ IsErrorEntry(response.stocks[2])
    /\ response.stocks[1].error = "timeout"
    /\ response.stocks[2].error # "timeout"

\* C4: a symbols string made of commas and blanks only is answered 400 without
\* any provider call.
C4_EmptyInputRejected ==
    (route = "stocks" /\ \A k \in 1..Len(arg) : arg[k] \in Whitespace \cup {","}) =>
        /\ pc = "done"
        /\ response.status = 400
        /\ calls = <<>>

C4_Witness ==
    /\ route = "stocks"
    /\ arg = <<" ", ",", ",", " ">>
    /\ response.status = 400

\* C5 (as claimed): price is absent exactly when neither currentPrice nor
\* regularMarketPrice is a number; a number, 0 included, in either field makes
\* price present.  Batch summaries and the detail path.
C5_PriceAbsentIffNoNumber ==
    \A k \in 1..Len(answers) :
        answers[k].tag # "raise" =>
            LET numeric == \/ IsNumber(RecordOf(k).currentPrice)
                           \/ IsNumber(RecordOf(k).regularMarketPrice)
            IN  /\ (route = "stocks" /\ k <= Len(results)
                      /\ ~IsErrorEntry(results[k])) =>
                       (results[k].price = None <=> ~numeric)
                /\ DetailDone => (response.status = 404 <=> ~numeric)

\* C7 (as claimed): the summary shaper never raises on a raw record, so a
\* symbol whose fetch answered gets a summary, never the degraded entry.
C7_ShaperNeverRaises ==
    \A k \in 1..Len(results) :
        answers[k].tag # "raise" => ~IsErrorEntry(results[k])

\* The safe-extracted previous close of the k-th record.
PrevCloseOf(k) == _safe(Get(RecordOf(k), "regularMarketPreviousClose"), None)

\* C6 (as claimed): in every batch entry change and changePercent are both
\* present or both absent, and present exactly when price is present and the
\* safe-extracted previous close is present and nonzero.
C6_ChangeIffPriceAndNonzeroPrevClose ==
    \A k \in 1..Len(results) :
        /\ results[k].change = None <=> results[k].changePercent = None
        /\ results[k].change # None <=>
               /\ results[k].price # None
               /\ PrevCloseOf(k) # None
               /\ PrevCloseOf(k) # Num(0)

\* C6 (amended): ... and present exactly when price is present and the
\* safe-extracted previous close is present, nonzero and not the empty string.
C6_ChangeIffPriceAndTruthyPrevClose ==
    \A k \in 1..Len(results) :
        /\ results[k].change = None <=> results[k].changePercent = None
        /\ results[k].change # None <=>
               /\ results[k].price # None
               /\ PrevCloseOf(k) # None
               /\ PrevCloseOf(k) # Num(0)
               /\ PrevCloseOf(k) # Str(<<>>)

C6_Witness ==
    /\ BatchDone
    /\ response.status = 200
    /\ RecordOf(1).currentPrice = Num(15000)
    /\ RecordOf(1).regularMarketPreviousClose = Num(14500)
    /\ response.stocks[1].change = Num(500)
    /\ response.stocks[1].changePercent = Num(345)

\* C8: a detail request whose fetch succeeds is answered 404 when the computed
\* price is absent and with a detail object otherwise; no detail object has an
\* absent price.
C8_NoPartialDetail ==
    DetailDone =>
        /\ answers[1].tag # "raise" =>
               IF DetailPrice(RecordOf(1)) = None
               THEN response.status = 404 /\ "price" \notin DOMAIN response
               ELSE /\ response.status = 200
                    /\ DOMAIN response =
                           {"status", "symbol", "name", "price", "marketCap",
                            "sector", "industry"}
        /\ response.status = 200 => response.price # None

C8_Witness ==
    /\ DetailDone
    /\ answers[1].tag = "dict"
    /\ RecordOf(1).currentPrice = NaN
    /\ RecordOf(1).regularMarketPrice = Missing
    /\ RecordOf(1).shortName # Missing
    /\ response.status = 404

\* C9: a detail request whose fetch throws is answered 502 for the whole
\* request, after exactly one provider call, with no detail object and no 404.
C9_FetchFailureIs502 ==
    (DetailDone /\ \E k \in 1..Len(answers) : answers[k].tag = "raise") =>
        /\ response.status = 502
        /\ Len(calls) = 1
        /\ "price" \notin DOMAIN response

C9_Witness ==
    /\ DetailDone
    /\ answers = <<Raises("timeout")>>
    /\ calls = <<<<"A">>>>
    /\ arg = <<" ", "A", " ">>
    /\ response.status = 502

\* The price both paths are claimed to select, with "falsy" read as stated:
\* absent or zero.
ClaimedPrice(info) ==
    LET current == _safe(Get(info, "currentPrice"), None)
    IN  IF current # None /\ current # Num(0)
        THEN current
        ELSE _safe(Get(info, "regularMarketPrice"), None)

\* The same with the empty string counted as falsy too.
AmendedPrice(info) ==
    LET current == _safe(Get(info, "currentPrice"), None)
    IN  IF current # None /\ current # Num(0) /\ current # Str(<<>>)
        THEN current
        ELSE _safe(Get(info, "regularMarketPrice"), None)

\* The price a finished or running request shows for its k-th record equals
\* Selected(record): in a batch summary, and on the detail path (404 exactly
\* when it is absent).
PriceShownIs(Selected(_)) ==
    \A k \in 1..Len(answers) :
        answers[k].tag # "raise" =>
            /\ (route = "stocks" /\ k <= Len(results) /\ ~IsErrorEntry(results[k])) =>
                   results[k].price = Selected(RecordOf(k))
            /\ DetailDone =>
                   IF Selected(RecordOf(k)) = None
                   THEN response.status = 404
                   ELSE response.status = 200 /\ response.price = Selected(RecordOf(k))

\* C10 (as claimed): on both paths price is safe(currentPrice) when that is
\* present and nonzero, and safe(regularMarketPrice) otherwise.
C10_PriceSelection == PriceShownIs(ClaimedPrice)

\* C10 (amended): on both paths price is safe(currentPrice) when that is
\* present, nonzero and not the empty string, and safe(regularMarketPrice)
\* otherwise; a currentPrice of 0 is overridden by the fallback field.
C10_PriceSelectionTruthy == PriceShownIs(AmendedPrice)

C10_Witness ==
    /\ Len(answers) = 1
    /\ answers[1].tag = "dict"
    /\ RecordOf(1).currentPrice = Num(0)
    /\ RecordOf(1).regularMarketPrice = Num(4200)
    /\ \/ DetailDone /\ response.status = 200 /\ response.price = Num(4200)
       \/ BatchDone /\ response.status = 200 /\ response.stocks[1].price = Num(4200)

====
